---- MODULE Spec2Model ----
(***************************************************************************)
(* Model of aloran_treasury.lock_manager.LockManager: the keystore record, *)
(* the locked/unlocked state, the in-memory keypair and the inactivity     *)
(* timer.  LockManager holds no mutex, so every method is modelled as the  *)
(* sequence of its reads and writes of the instance's fields, one step per *)
(* field access, interleaved between the client threads and the threads of *)
(* the threading.Timer objects that _start_timer creates.                  *)
(***************************************************************************)
EXTENDS Integers, Sequences, FiniteSets, TLC

\* ------------------------------------------------------------------ bounds
MaxTimers == 2
MaxListeners == 1
MaxCalls == 3
MaxPool == 2

\* inactivity_seconds of the repository's tests, 0.2 s, in clock ticks of 0.1 s.
Duration == 2

\* ------------------------------------------------------------- value sets
TimerIds == 1..MaxTimers
\* The client threads that call the manager's methods: the user interface's
\* thread and a second thread of the application.
UI == MaxTimers + 1
Worker == MaxTimers + 2
Callers == {UI, Worker}
Threads == TimerIds \cup Callers
NoTimer == 0

\* A passphrase is the sequence of the bytes of its UTF-8 encoding.
Passphrases == {<<1>>, <<1, 0>>, <<2>>}
Salts == {1}
Secrets == {1, 2}

\* Keypair.pubkey(): the public key is a function of the secret seed.
pubkey(secret) == 100 + secret

\* A solders Keypair object; None is the object with no seed.
Keypair(secret) == [secret |-> secret, pubkey |-> pubkey(secret)]
None == [secret |-> 0, pubkey |-> 0]
Keypairs == {Keypair(s) : s \in Secrets}

\* Byte strings under XOR: `data` is the underlying clear text and `mask`
\* the set of key streams XORed onto it (x ^ k ^ k = x).
Bytes(data) == [data |-> data, mask |-> {}]

\* Keypair.to_bytes(): the 32-byte seed followed by the 32-byte public key.
to_bytes(kp) == Bytes(<<kp.secret, kp.pubkey>>)

SymDiff(a, b) == (a \ b) \cup (b \ a)

\* _xor_bytes(left, right) with right a derived key stream of the length of
\* left.
_xor_bytes(left, key) == [data |-> left.data, mask |-> SymDiff(left.mask, {key})]

\* HMAC (RFC 2104) pads a key shorter than its block with zero bytes, so
\* PBKDF2-HMAC-SHA256 cannot tell a passphrase from the same passphrase
\* followed by NUL bytes.
RECURSIVE HmacKey(_)
HmacKey(bs) ==
    IF Len(bs) > 0 /\ bs[Len(bs)] = 0 THEN HmacKey(SubSeq(bs, 1, Len(bs) - 1))
    ELSE bs

\* passphrase.encode("utf-8")
encode(passphrase) == passphrase

\* hashlib.pbkdf2_hmac("sha256", password, salt, 200_000): distinct
\* (HMAC key, salt) pairs give distinct key streams.
_derive_key(passphrase, salt) == <<HmacKey(encode(passphrase)), salt>>

\* Keypair.from_bytes: accepts exactly the 64 bytes of a keypair whose
\* public half is the public key of its seed.
ValidKeypairBytes(b) ==
    /\ b.mask = {}
    /\ b.data[1] \in Secrets
    /\ b.data[2] = pubkey(b.data[1])

from_bytes(b) == IF ValidKeypairBytes(b) THEN Keypair(b.data[1]) ELSE None

b64encode(x) == [b64 |-> x]
b64decode(x) == x.b64

\* A field that is absent from the record or holds the empty string, and a
\* string base64.b64decode rejects (binascii.Error).
NoSalt == b64encode(0)
NoCiphertext == b64encode(Bytes(<<0, 0>>))
BadBase64 == b64encode(-1)

\* The keystore record of persist_keystore ("created" carries no behaviour
\* and is left out).  `form` is what the text is to json.loads: "object" for
\* a JSON object, "array" for other JSON, "text" for no JSON at all, "none"
\* for no text.  `passphrase` is a history field: the passphrase the
\* record was persisted with; the program stores no such field.
Metadata(passphrase, kp, salt) ==
    [form |-> "object",
     salt |-> b64encode(salt),
     ciphertext |-> b64encode(_xor_bytes(to_bytes(kp), _derive_key(passphrase, salt))),
     public_key |-> kp.pubkey,
     passphrase |-> passphrase]

NoMetadata == [form |-> "none",
               salt |-> NoSalt,
               ciphertext |-> NoCiphertext,
               public_key |-> 0,
               passphrase |-> <<>>]

\* The record an earlier run of the program left in the file.
EarlierRecord == Metadata(<<1>>, Keypair(1), 1)

\* Malformed keystore files: text that is no JSON, JSON that is no object
\* (a list), a record whose salt is empty, a record whose ciphertext is
\* missing, a record whose salt is no base64.
NotJson == [NoMetadata EXCEPT !.form = "text"]
NotObject == [NoMetadata EXCEPT !.form = "array"]
EmptySalt == [EarlierRecord EXCEPT !.salt = NoSalt]
MissingCiphertext == [EarlierRecord EXCEPT !.ciphertext = NoCiphertext]
BadSalt == [EarlierRecord EXCEPT !.salt = BadBase64]
MalformedFiles == {NotJson, NotObject, EmptySalt, MissingCiphertext, BadSalt}

VARIABLES
    keystore_file,        \* content of keystore_path, NoMetadata when absent
    keystore_metadata,    \* self._keystore_metadata
    keypair,              \* self._keypair
    locked,               \* self.state.locked
    timer_handle,         \* self.state.timer_handle
    inactivity_seconds,   \* self.inactivity_seconds, in clock ticks
    unlock_listeners,     \* len(self._unlock_listeners)
    lock_listeners,       \* len(self._lock_listeners)
    pc,                   \* position of every thread
    frame,                \* local variables of the client threads' calls
    trem,                 \* ticks left before an armed timer expires
    returned,             \* the call that returned in the last step
    superseded,           \* running timers cancelled by another thread
    sinceActivity,        \* ticks since register_activity last restarted the timer
    calls,                \* number of calls the client threads have made
    network,              \* WalletState.network
    endpoints,            \* the endpoint pool of every network, in pool order
    active_index,         \* the active endpoint of every network, from 0
    rotation,             \* the rotation event emitted by the last step
    selected,             \* url the remote operation of the last step selected
    reply,                \* the call on the endpoints that returned in the last step
    controller_keypair,   \* whether WalletController._keypair is set
    monitor,              \* NetworkMonitor: its interval and its QTimer
    wallet_locked,        \* WalletState.locked
    public_key,           \* whether WalletState.public_key is set
    activity_list,        \* TreasuryConsole.activity_list, one item per transfer
    failed_transfers,     \* TreasuryConsole.failed_transfers
    errors,               \* titles of the errors the console's last handler showed
    plan                  \* the last call of a mint helper and what it returned

vars == <<keystore_file, keystore_metadata, keypair, locked, timer_handle,
          inactivity_seconds, unlock_listeners, lock_listeners, pc, frame,
          trem, returned, superseded, sinceActivity, calls,
          network, endpoints, active_index, rotation, selected,
          reply, controller_keypair, monitor, wallet_locked, public_key,
          activity_list, failed_transfers, errors, plan>>

\* The variables of the lock manager and those of the endpoint registry.
vault == <<keystore_file, keystore_metadata, keypair, locked, timer_handle,
           inactivity_seconds, unlock_listeners, lock_listeners, pc, frame,
           trem, returned, superseded, sinceActivity, calls>>
registry == <<network, endpoints, active_index, rotation, selected,
              reply, controller_keypair>>

\* The variables of the console's window: the wallet state it shows, its lists
\* and the mint helpers.
console == <<wallet_locked, public_key, activity_list, failed_transfers,
             errors, plan>>

manager == <<keypair, locked, timer_handle>>
disk == <<keystore_file, keystore_metadata>>
config == <<inactivity_seconds>>
listeners == <<unlock_listeners, lock_listeners>>

\* `was_locked` is a history field: whether the manager was locked, with no
\* keypair in memory, when the call was made.
NoFrame == [op |-> "none", passphrase |-> <<>>, salt |-> NoSalt,
            keypair |-> None, timer |-> NoTimer, metadata |-> NoMetadata,
            was_locked |-> FALSE]

\* What a call that has just returned did: the thread, the method, "ok" or
\* the exception raised, the locals it ended with, the number of listeners
\* it called and the argument it called them with.
NoReturn == [who |-> 0, op |-> "none", result |-> "none", frame |-> NoFrame,
             notified |-> 0, delivered |-> None]

Return(th, op, result, fr, notified, delivered) ==
    [who |-> th, op |-> op, result |-> result, frame |-> fr,
     notified |-> notified, delivered |-> delivered]

Returns(th, op, result) == Return(th, op, result, NoFrame, 0, None)

RunningPcs == {"expired", "lock_cancel", "lock_unset", "lock_clear", "lock_flag",
               "lock_notify"}

\* ------------------------------------------------------- endpoints (wallet.py)
\* Two of the three NETWORKS; "Devnet" is the default of WalletState.network.
Networks == {"Mainnet", "Devnet"}

\* EndpointStatus.latency_ms: None or a measured latency.
NoLatency == 0
Measured == 1

\* EndpointStatus (wallet.py 19-35); `label` carries no behaviour and is left
\* out.  healthy is "None", "True" or "False"; last_checked is whether a
\* time has been recorded.
EndpointStatus(url, priority) ==
    [url |-> url, priority |-> priority, healthy |-> "None",
     latency_ms |-> NoLatency, last_checked |-> FALSE]

mark_result(ep, healthy, latency_ms) ==
    [ep EXCEPT !.healthy = IF healthy THEN "True" ELSE "False",
               !.latency_ms = latency_ms,
               !.last_checked = TRUE]

\* _default_endpoint_matrix (wallet.py 38-63): one endpoint per network.
_default_endpoint_matrix == [n \in Networks |-> <<EndpointStatus(1, 0)>>]

NoRotation == [network |-> "none", previous |-> 0, current |-> 0,
               reason |-> "none"]

\* The event of a rotation of a network from one index to another.
Rotation(n, previous, current, reason) ==
    [network |-> n, previous |-> previous, current |-> current,
     reason |-> reason]

\* The reasons callers give for a rotation or a health update.
Reasons == {"Failover drill", "RPC timeout"}
NoUrl == 0

\* What a call on the endpoints returned: the operation, its network, the url
\* of the endpoint it used or returned, how it ended and how many requests it
\* sent.
NoReply == [op |-> "none", network |-> "none", url |-> NoUrl,
            status |-> "none", attempts |-> 0]

Reply(op, n, url, status, attempts) ==
    [op |-> op, network |-> n, url |-> url, status |-> status,
     attempts |-> attempts]

Min(a, b) == IF a <= b THEN a ELSE b

Max(a, b) == IF a >= b THEN a ELSE b

\* NetworkMonitor.__init__, line 24: the interval of the timer in
\* milliseconds, of the seconds the caller asks for.
\* Faulty variant: a request above the range is taken as it is.
interval_ms_unbounded(interval_seconds) == Max(15, interval_seconds) * 1000

interval_ms(interval_seconds) == Max(15, Min(interval_seconds, 60)) * 1000

\* NetworkMonitor(wallet_state, interval_seconds): the timer is made and not
\* started.  `elapsed` is the time since the timer was started or fired last;
\* `requested`, `last` and `was_active` are history fields: the seconds asked
\* for, the last call on the monitor and whether the timer was running when
\* it was made.
NetworkMonitor(interval_seconds) ==
    [interval_ms |-> interval_ms(interval_seconds), active |-> FALSE,
     elapsed |-> 0, requested |-> interval_seconds, last |-> "none",
     was_active |-> FALSE]

\* What the console asks for (app.py 290), and the default of the parameter.
ConsoleInterval == 20
DefaultInterval == 30

\* The arguments of a mint helper that name extensions, None when not given.
NoExtensions == [transfer_hook |-> "None", mint_close_authority |-> "None",
                 interest_bearing |-> "None"]

\* No mint helper called: its arguments, then the helper, what it raised and
\* the instructions it returned.
NoPlan == [token_program |-> "Token-2022", extensions |-> NoExtensions,
           op |-> "none", outcome |-> "none", instructions |-> <<>>]

\* WalletState(), WalletController(state), NetworkMonitor(state,
\* interval_seconds) not polling, the console's empty lists, and the
\* arguments `request` ready for the mint helpers.
InitConsole(matrix, interval_seconds, request) ==
    /\ network = "Devnet"
    /\ endpoints = matrix
    /\ active_index = [n \in Networks |-> 0]
    /\ rotation = NoRotation
    /\ selected = NoUrl
    /\ reply = NoReply
    /\ controller_keypair = FALSE
    /\ monitor = NetworkMonitor(interval_seconds)
    /\ wallet_locked = TRUE
    /\ public_key = FALSE
    /\ activity_list = <<>>
    /\ failed_transfers = <<>>
    /\ errors = <<>>
    /\ plan = request

InitEndpoints(matrix) == InitConsole(matrix, ConsoleInterval, NoPlan)

\* ---------------------------------------------------------------- __init__
\* _load_keystore (71-79): nothing when the file is absent or json.loads
\* raises JSONDecodeError, else whatever json.loads returns.
_load_keystore(file) == IF file.form \in {"none", "text"} THEN NoMetadata ELSE file

has_keystore == keystore_metadata # NoMetadata

InitVault(file, seconds) ==
    /\ keystore_file = file
    /\ keystore_metadata = _load_keystore(file)
    /\ keypair = None
    /\ locked = TRUE
    /\ timer_handle = NoTimer
    /\ inactivity_seconds = seconds
    /\ unlock_listeners = 0
    /\ lock_listeners = 0
    /\ pc = [th \in Threads |-> IF th \in Callers THEN "idle" ELSE "dead"]
    /\ frame = [c \in Callers |-> NoFrame]
    /\ trem = [t \in TimerIds |-> 0]
    /\ returned = NoReturn
    /\ superseded = {}
    /\ sinceActivity = Duration
    /\ calls = 0

\* The application's objects after construction: the lock manager and the
\* wallet controller with its default endpoints.
InitManager(file, seconds) ==
    /\ InitVault(file, seconds)
    /\ InitEndpoints(_default_endpoint_matrix)

\* LockManager(keystore_path, inactivity_seconds): the file may be absent or
\* hold the record of an earlier persist_keystore.
Init ==
    \E file \in {NoMetadata, EarlierRecord}, seconds \in {0, Duration} :
        InitManager(file, seconds)

\* ----------------------------------------------------------------- helpers
Goto(th, label) ==
    /\ pc' = [pc EXCEPT ![th] = label]
    /\ returned' = NoReturn

\* The thread leaves its call: a client thread is idle again, a timer
\* thread ends.
Finish(th, ret) ==
    /\ pc' = [pc EXCEPT ![th] = IF th \in Callers THEN "idle" ELSE "dead"]
    /\ frame' = [c \in Callers |-> IF c = th THEN NoFrame ELSE frame[c]]
    /\ superseded' = superseded \ {th}
    /\ returned' = ret

\* A client thread that is in no call makes its next call.
Call(c) ==
    /\ pc[c] = "idle"
    /\ calls < MaxCalls
    /\ calls' = calls + 1

\* threading.Timer.cancel(): sets the timer's `finished` event.  A timer
\* still waiting never calls its function; one whose run() is already past
\* the `finished.is_set()` test is not stopped.
CancelPc(t) == IF pc[t] = "armed" THEN [pc EXCEPT ![t] = "dead"] ELSE pc

CancelRem(t) == [trem EXCEPT ![t] = 0]

CancelGhost(th, t) ==
    IF pc[t] \in RunningPcs /\ t # th THEN superseded \cup {t} ELSE superseded

\* ------------------------------------------------------- subscribe_* (81-85)
subscribe_lock(c) ==
    /\ Call(c)
    /\ lock_listeners < MaxListeners
    /\ lock_listeners' = lock_listeners + 1
    /\ returned' = Returns(c, "subscribe_lock", "ok")
    /\ UNCHANGED <<disk, manager, config, registry, console, monitor,
                   unlock_listeners, pc, frame, trem,
                   superseded, sinceActivity>>

subscribe_unlock(c) ==
    /\ Call(c)
    /\ unlock_listeners < MaxListeners
    /\ unlock_listeners' = unlock_listeners + 1
    /\ returned' = Returns(c, "subscribe_unlock", "ok")
    /\ UNCHANGED <<disk, manager, config, registry, console, monitor,
                   lock_listeners, pc, frame, trem,
                   superseded, sinceActivity>>

\* --------------------------------------------------- persist_keystore (94-108)
\* Lines 97-107: a fresh salt, the encrypted record, written to the file.
persist_keystore(c, passphrase, kp, salt) ==
    /\ Call(c)
    /\ keystore_file' = Metadata(passphrase, kp, salt)
    /\ frame' = [frame EXCEPT ![c].op = "persist_keystore",
                              ![c].metadata = Metadata(passphrase, kp, salt)]
    /\ Goto(c, "persist_assign")
    /\ UNCHANGED <<keystore_metadata, manager, config, registry, console, monitor, listeners, trem,
                   superseded, sinceActivity>>

\* Line 108.
persist_assign(c) ==
    /\ pc[c] = "persist_assign"
    /\ keystore_metadata' = frame[c].metadata
    /\ Finish(c, Return(c, "persist_keystore", "ok", frame[c], 0, None))
    /\ UNCHANGED <<keystore_file, manager, config, registry, console, monitor, listeners, trem,
                   sinceActivity, calls>>

\* ------------------------------------------------------------ unlock (110-132)
\* Faulty variant: the test of lines 113-114 is left out.
unlock_untested(c, passphrase) ==
    /\ Call(c)
    /\ frame' = [frame EXCEPT ![c].op = "unlock", ![c].passphrase = passphrase]
    /\ Goto(c, "unlock_salt")
    /\ UNCHANGED <<disk, manager, config, registry, console, monitor,
                   listeners, trem, sinceActivity,
                   superseded>>

\* Lines 113-114.
unlock(c, passphrase) ==
    /\ Call(c)
    /\ IF keystore_metadata = NoMetadata
       THEN /\ Finish(c, Returns(c, "unlock", "RuntimeError"))
       ELSE /\ frame' = [frame EXCEPT ![c].op = "unlock",
                                      ![c].passphrase = passphrase]
            /\ Goto(c, "unlock_salt")
            /\ UNCHANGED superseded
    /\ UNCHANGED <<disk, manager, config, registry, console, monitor,
                   listeners, trem, sinceActivity>>

\* Line 116: only a dict has get().
unlock_salt(c) ==
    /\ pc[c] = "unlock_salt"
    /\ IF keystore_metadata.form # "object"
       THEN Finish(c, Return(c, "unlock", "AttributeError", frame[c], 0, None))
       ELSE /\ frame' = [frame EXCEPT ![c].salt = keystore_metadata.salt]
            /\ Goto(c, "unlock_ciphertext")
            /\ UNCHANGED superseded
    /\ UNCHANGED <<disk, manager, config, registry, console, monitor,
                   listeners, trem, sinceActivity, calls>>

\* Faulty variant: the decoded ciphertext is taken as the plaintext, without the XOR
\* of line 124.
DecryptWithoutXor(passphrase, salt_b64, ciphertext_b64) ==
    b64decode(ciphertext_b64)

\* Lines 121-124: the candidate plaintext.
Decrypt(passphrase, salt_b64, ciphertext_b64) ==
    _xor_bytes(b64decode(ciphertext_b64),
               _derive_key(passphrase, b64decode(salt_b64)))

\* Lines 117-129; the record read here is remembered for the history.
\* "IncompleteError" is the ValueError of line 119, "ValueError" the one of
\* line 129.
unlock_ciphertext(c) ==
    /\ pc[c] = "unlock_ciphertext"
    /\ LET fr == [frame[c] EXCEPT !.metadata = keystore_metadata]
       IN IF frame[c].salt = NoSalt \/ keystore_metadata.ciphertext = NoCiphertext
          THEN Finish(c, Return(c, "unlock", "IncompleteError", fr, 0, None))
          ELSE IF frame[c].salt = BadBase64
          THEN Finish(c, Return(c, "unlock", "binascii.Error", fr, 0, None))
          ELSE LET kp == from_bytes(Decrypt(frame[c].passphrase, frame[c].salt,
                                            keystore_metadata.ciphertext))
               IN IF kp = None
                  THEN Finish(c, Return(c, "unlock", "ValueError", fr, 0, None))
                  ELSE /\ frame' = [frame EXCEPT ![c] = [fr EXCEPT !.keypair = kp]]
                       /\ Goto(c, "set_keypair")
                       /\ UNCHANGED superseded
    /\ UNCHANGED <<disk, manager, config, registry, console, monitor,
                   listeners, trem, sinceActivity, calls>>

\* ---------------------------------------------- unlock_with_keypair (134-137)
unlock_with_keypair(c, kp) ==
    /\ Call(c)
    /\ frame' = [frame EXCEPT ![c].op = "unlock_with_keypair",
                              ![c].keypair = kp]
    /\ Goto(c, "set_keypair")
    /\ UNCHANGED <<disk, manager, config, registry, console, monitor, listeners, trem, superseded,
                   sinceActivity>>

\* ----------------------------------------------------- _set_unlocked (139-144)
\* Line 140.
set_keypair(c) ==
    /\ pc[c] = "set_keypair"
    /\ keypair' = frame[c].keypair
    /\ Goto(c, "set_flag")
    /\ UNCHANGED <<disk, locked, timer_handle, config, registry, console, monitor,
                   listeners, frame, trem,
                   superseded, sinceActivity, calls>>

\* Line 141.
set_flag(c) ==
    /\ pc[c] = "set_flag"
    /\ locked' = FALSE
    /\ Goto(c, "timer_check")
    /\ UNCHANGED <<disk, keypair, timer_handle, config, registry, console, monitor,
                   listeners, frame, trem,
                   superseded, sinceActivity, calls>>

\* Lines 143-144: every listener is called with the Keypair object.
ListenerArgument(kp) == kp

notify_unlock(c) ==
    /\ pc[c] = "notify_unlock"
    /\ Finish(c, Return(c, frame[c].op, "ok", frame[c], unlock_listeners,
                        ListenerArgument(frame[c].keypair)))
    /\ UNCHANGED <<disk, manager, config, registry, console, monitor,
                   listeners, trem, sinceActivity, calls>>

\* ------------------------------------------------- register_activity (87-92)
\* Faulty variant: the test of lines 90-91 is left out.
register_activity_untested(c) ==
    /\ Call(c)
    /\ frame' = [frame EXCEPT ![c].op = "register_activity"]
    /\ Goto(c, "timer_check")
    /\ UNCHANGED <<disk, manager, config, registry, console, monitor,
                   listeners, trem, sinceActivity,
                   superseded>>

register_activity(c) ==
    /\ Call(c)
    /\ IF locked
       THEN /\ Finish(c, Returns(c, "register_activity", "ok"))
       ELSE /\ frame' = [frame EXCEPT ![c].op = "register_activity"]
            /\ Goto(c, "timer_check")
            /\ UNCHANGED superseded
    /\ UNCHANGED <<disk, manager, config, registry, console, monitor,
                   listeners, trem, sinceActivity>>

\* ------------------------------------------------------ _start_timer (157-167)
\* Where _start_timer's caller goes on: _set_unlocked to its listeners,
\* register_activity to its return.
AfterTimer(c) ==
    IF frame[c].op = "register_activity"
    THEN Finish(c, Returns(c, "register_activity", "ok"))
    ELSE Goto(c, "notify_unlock") /\ UNCHANGED <<frame, superseded>>

\* Faulty variant: the test of lines 158-159 is left out.
timer_check_untested(c) ==
    /\ pc[c] = "timer_check"
    /\ Goto(c, IF timer_handle # NoTimer THEN "timer_cancel" ELSE "timer_start")
    /\ UNCHANGED <<disk, manager, config, registry, console, monitor,
                   listeners, trem, sinceActivity, calls,
                   frame, superseded>>

\* Lines 158-161.
timer_check(c) ==
    /\ pc[c] = "timer_check"
    /\ IF inactivity_seconds <= 0
       THEN AfterTimer(c)
       ELSE /\ Goto(c, IF timer_handle # NoTimer THEN "timer_cancel"
                       ELSE "timer_start")
            /\ UNCHANGED <<frame, superseded>>
    /\ UNCHANGED <<disk, manager, config, registry, console, monitor,
                   listeners, trem, sinceActivity, calls>>

\* Line 162: the handle is read again; None has no cancel().
timer_cancel(c) ==
    /\ pc[c] = "timer_cancel"
    /\ IF timer_handle = NoTimer
       THEN /\ Finish(c, Returns(c, frame[c].op, "AttributeError"))
            /\ UNCHANGED trem
       ELSE /\ pc' = [CancelPc(timer_handle) EXCEPT ![c] = "timer_start"]
            /\ trem' = CancelRem(timer_handle)
            /\ superseded' = CancelGhost(c, timer_handle)
            /\ returned' = NoReturn
            /\ UNCHANGED frame
    /\ UNCHANGED <<disk, manager, config, registry, console, monitor,
                   listeners, sinceActivity, calls>>

\* A Timer object not referenced by the manager or by a running call.
FreeTimers ==
    {t \in TimerIds : /\ pc[t] = "dead"
                      /\ t # timer_handle
                      /\ \A c \in Callers : frame[c].timer # t}

NewTimer == CHOOSE t \in FreeTimers : \A u \in FreeTimers : t <= u

\* Faulty variant: the Timer is created but timer.start() (166) is left out.
timer_start_unstarted(c) ==
    /\ pc[c] = "timer_start"
    /\ FreeTimers # {}
    /\ pc' = [pc EXCEPT ![c] = "timer_assign"]
    /\ frame' = [frame EXCEPT ![c].timer = NewTimer]
    /\ sinceActivity' = IF frame[c].op = "register_activity" THEN 0 ELSE Duration
    /\ returned' = NoReturn
    /\ UNCHANGED <<disk, manager, config, registry, console, monitor,
                   listeners, trem, superseded, calls>>

\* Lines 164-166: the new timer runs before the handle names it.
timer_start(c) ==
    /\ pc[c] = "timer_start"
    /\ FreeTimers # {}
    /\ pc' = [pc EXCEPT ![c] = "timer_assign", ![NewTimer] = "armed"]
    /\ trem' = [trem EXCEPT ![NewTimer] = inactivity_seconds]
    /\ frame' = [frame EXCEPT ![c].timer = NewTimer]
    /\ sinceActivity' = IF frame[c].op = "register_activity" THEN 0 ELSE Duration
    /\ returned' = NoReturn
    /\ UNCHANGED <<disk, manager, config, registry, console, monitor, listeners, superseded, calls>>

\* Line 167.
timer_assign(c) ==
    /\ pc[c] = "timer_assign"
    /\ timer_handle' = frame[c].timer
    /\ IF frame[c].op = "register_activity"
       THEN Finish(c, Returns(c, "register_activity", "ok"))
       ELSE /\ frame' = [frame EXCEPT ![c].timer = NoTimer]
            /\ Goto(c, "notify_unlock")
            /\ UNCHANGED superseded
    /\ UNCHANGED <<disk, keypair, locked, config, registry, console, monitor, listeners, trem,
                   sinceActivity, calls>>

\* -------------------------------------------------------------- lock (146-155)
\* Line 149, entered by a client's call or by an expired timer's
\* _expire_session (169-170).
lock(th) ==
    /\ \/ /\ th \in Callers
          /\ Call(th)
          /\ frame' = [frame EXCEPT ![th].op = "lock",
                                    ![th].was_locked = locked /\ keypair = None]
       \/ th \in TimerIds /\ pc[th] = "expired" /\ UNCHANGED <<calls, frame>>
    /\ Goto(th, IF timer_handle # NoTimer THEN "lock_cancel" ELSE "lock_clear")
    /\ UNCHANGED <<disk, manager, config, registry, console, monitor, listeners, trem, superseded,
                   sinceActivity>>

\* Line 150: the handle is read again; None has no cancel().
lock_cancel(th) ==
    /\ pc[th] = "lock_cancel"
    /\ IF timer_handle = NoTimer
       THEN /\ Finish(th, Return(th, "lock", "AttributeError",
                                  IF th \in Callers THEN frame[th] ELSE NoFrame,
                                  0, None))
            /\ UNCHANGED trem
       ELSE /\ pc' = [CancelPc(timer_handle) EXCEPT ![th] = "lock_unset"]
            /\ trem' = CancelRem(timer_handle)
            /\ superseded' = CancelGhost(th, timer_handle)
            /\ returned' = NoReturn
            /\ UNCHANGED frame
    /\ UNCHANGED <<disk, manager, config, registry, console, monitor,
                   listeners, sinceActivity, calls>>

\* Faulty variant: lock cancels the timer but keeps the handle (151 left out).
lock_unset_kept(th) ==
    /\ pc[th] = "lock_unset"
    /\ Goto(th, "lock_clear")
    /\ UNCHANGED <<disk, manager, config, registry, console, monitor,
                   listeners, frame, trem, superseded,
                   sinceActivity, calls>>

\* Line 151.
lock_unset(th) ==
    /\ pc[th] = "lock_unset"
    /\ timer_handle' = NoTimer
    /\ Goto(th, "lock_clear")
    /\ UNCHANGED <<disk, keypair, locked, config, registry, console, monitor,
                   listeners, frame, trem,
                   superseded, sinceActivity, calls>>

\* Line 152.
lock_clear(th) ==
    /\ pc[th] = "lock_clear"
    /\ keypair' = None
    /\ Goto(th, "lock_flag")
    /\ UNCHANGED <<disk, locked, timer_handle, config, registry, console, monitor,
                   listeners, frame, trem,
                   superseded, sinceActivity, calls>>

\* Line 153.
lock_flag(th) ==
    /\ pc[th] = "lock_flag"
    /\ locked' = TRUE
    /\ Goto(th, "lock_notify")
    /\ UNCHANGED <<disk, keypair, timer_handle, config, registry, console, monitor,
                   listeners, frame, trem,
                   superseded, sinceActivity, calls>>

\* Lines 154-155.
lock_notify(th) ==
    /\ pc[th] = "lock_notify"
    /\ Finish(th, Return(th, "lock", "ok",
                          IF th \in Callers THEN frame[th] ELSE NoFrame,
                          lock_listeners, None))
    /\ UNCHANGED <<disk, manager, config, registry, console, monitor,
                   listeners, trem, sinceActivity, calls>>

\* ---------------------------------------------------------- shutdown (172-177)
\* Line 175.
shutdown(c) ==
    /\ Call(c)
    /\ IF timer_handle # NoTimer
       THEN /\ frame' = [frame EXCEPT ![c].op = "shutdown"]
            /\ Goto(c, "shutdown_cancel")
            /\ UNCHANGED superseded
       ELSE Finish(c, Returns(c, "shutdown", "ok"))
    /\ UNCHANGED <<disk, manager, config, registry, console, monitor,
                   listeners, trem, sinceActivity>>

\* Line 176.
shutdown_cancel(c) ==
    /\ pc[c] = "shutdown_cancel"
    /\ IF timer_handle = NoTimer
       THEN /\ Finish(c, Returns(c, "shutdown", "AttributeError"))
            /\ UNCHANGED trem
       ELSE /\ pc' = [CancelPc(timer_handle) EXCEPT ![c] = "shutdown_unset"]
            /\ trem' = CancelRem(timer_handle)
            /\ superseded' = CancelGhost(c, timer_handle)
            /\ returned' = NoReturn
            /\ UNCHANGED frame
    /\ UNCHANGED <<disk, manager, config, registry, console, monitor,
                   listeners, sinceActivity, calls>>

\* Line 177.
shutdown_unset(c) ==
    /\ pc[c] = "shutdown_unset"
    /\ timer_handle' = NoTimer
    /\ Finish(c, Returns(c, "shutdown", "ok"))
    /\ UNCHANGED <<disk, keypair, locked, config, registry, console, monitor, listeners, trem,
                   sinceActivity, calls>>

\* ------------------------------------------------------- threading.Timer
\* The clock advances by one tick.
Tick ==
    /\ \/ \E t \in TimerIds : pc[t] = "armed" /\ trem[t] > 0
       \/ sinceActivity < Duration
    /\ trem' = [t \in TimerIds |-> IF trem[t] > 0 THEN trem[t] - 1 ELSE 0]
    /\ sinceActivity' = IF sinceActivity < Duration THEN sinceActivity + 1
                        ELSE sinceActivity
    /\ returned' = NoReturn
    /\ UNCHANGED <<disk, manager, config, registry, console, monitor,
                   listeners, pc, frame, superseded, calls>>

\* Timer.run(): the wait is over, `finished` is not set, and the function
\* (_expire_session, 164) is about to be called.
Expire(t) ==
    /\ pc[t] = "armed"
    /\ trem[t] = 0
    /\ Goto(t, "expired")
    /\ UNCHANGED <<disk, manager, config, registry, console, monitor,
                   listeners, frame, trem, superseded,
                   sinceActivity, calls>>

\* ------------------------------------------------------------ specification
ClientStep(c) ==
    \/ subscribe_lock(c)
    \/ subscribe_unlock(c)
    \/ \E p \in Passphrases, k \in Keypairs, s \in Salts :
          persist_keystore(c, p, k, s)
    \/ persist_assign(c)
    \/ \E p \in Passphrases : unlock(c, p)
    \/ unlock_salt(c)
    \/ unlock_ciphertext(c)
    \/ \E k \in Keypairs : unlock_with_keypair(c, k)
    \/ set_keypair(c)
    \/ set_flag(c)
    \/ notify_unlock(c)
    \/ register_activity(c)
    \/ timer_check(c)
    \/ timer_cancel(c)
    \/ timer_start(c)
    \/ timer_assign(c)
    \/ shutdown(c)
    \/ shutdown_cancel(c)
    \/ shutdown_unset(c)

LockStep(th) ==
    \/ lock(th)
    \/ lock_cancel(th)
    \/ lock_unset(th)
    \/ lock_clear(th)
    \/ lock_flag(th)
    \/ lock_notify(th)

Next ==
    \/ ClientStep(UI)
    \/ \E th \in TimerIds \cup {UI} : LockStep(th)
    \/ \E t \in TimerIds : Expire(t)
    \/ Tick

Spec == Init /\ [][Next]_vars

\* ------------------------------------------------------------------ claims
\* C1: for every passphrase different from the one the keystore was persisted
\* with, unlock raises the wrong-passphrase error (ValueError) and changes
\* nothing: no keypair is stored, the lock state and the timers stay as they
\* were and no unlock listener is called.
C1_WrongPassphraseRaises ==
    [][\A c \in Callers :
          (/\ pc[c] = "unlock_ciphertext"
           /\ pc'[c] # "unlock_ciphertext"
           /\ frame[c].passphrase # keystore_metadata.passphrase)
          => (/\ returned'.op = "unlock"
              /\ returned'.result = "ValueError"
              /\ returned'.notified = 0
              /\ UNCHANGED <<keypair, locked, timer_handle, trem>>)]_vars

\* C2: in every reachable state, the intermediate states of lock, unlock and
\* timer expiry included, the keypair is in memory exactly when the state is
\* unlocked.
C2_SecretIffUnlocked == (keypair # None) <=> ~locked

\* The session's life: the client unlocks, pings, locks and shuts down; the
\* keystore record and the listeners stay as they are.
SessionNext ==
    \/ \E p \in Passphrases : unlock(UI, p)
    \/ unlock_salt(UI)
    \/ unlock_ciphertext(UI)
    \/ set_keypair(UI)
    \/ set_flag(UI)
    \/ notify_unlock(UI)
    \/ register_activity(UI)
    \/ timer_check(UI)
    \/ timer_cancel(UI)
    \/ timer_start(UI)
    \/ timer_assign(UI)
    \/ shutdown(UI)
    \/ shutdown_cancel(UI)
    \/ shutdown_unset(UI)
    \/ \E th \in TimerIds \cup {UI} : LockStep(th)
    \/ \E t \in TimerIds : Expire(t)
    \/ Tick

\* Scheduling: the clock advances, every timer thread and every call in
\* progress is eventually given the processor.  Whether the client makes
\* another call is up to the client.
ClientContinue ==
    \/ unlock_salt(UI)
    \/ unlock_ciphertext(UI)
    \/ set_keypair(UI)
    \/ set_flag(UI)
    \/ notify_unlock(UI)
    \/ timer_check(UI)
    \/ timer_cancel(UI)
    \/ timer_start(UI)
    \/ timer_assign(UI)
    \/ shutdown_cancel(UI)
    \/ shutdown_unset(UI)
    \/ lock_cancel(UI)
    \/ lock_unset(UI)
    \/ lock_clear(UI)
    \/ lock_flag(UI)
    \/ lock_notify(UI)

Fairness ==
    /\ WF_vars(Tick)
    /\ WF_vars(ClientContinue)
    /\ \A t \in TimerIds : WF_vars(Expire(t) \/ LockStep(t))

\* A manager constructed over an existing keystore with auto-lock enabled.
InitSession == InitManager(EarlierRecord, Duration)

SpecLive == InitSession /\ [][SessionNext]_vars /\ Fairness

\* The scenario of a manual lock racing the inactivity timer: the client
\* unlocks once and from then on only calls lock, while the timer of the
\* session may expire at any moment.
LockRaceNext ==
    \/ calls = 0 /\ \E k \in Keypairs : unlock_with_keypair(UI, k)
    \/ set_keypair(UI)
    \/ set_flag(UI)
    \/ timer_check(UI)
    \/ timer_start(UI)
    \/ timer_assign(UI)
    \/ notify_unlock(UI)
    \/ calls >= 1 /\ lock(UI)
    \/ \E t \in TimerIds : lock(t)
    \/ \E th \in TimerIds \cup {UI} :
          \/ lock_cancel(th)
          \/ lock_unset(th)
          \/ lock_clear(th)
          \/ lock_flag(th)
          \/ lock_notify(th)
    \/ \E t \in TimerIds : Expire(t)
    \/ Tick

SpecLockRace == Init /\ [][LockRaceNext]_vars

\* No client call and no timer callback is in progress.
Quiescent == pc[UI] = "idle" /\ \A t \in TimerIds : pc[t] \notin RunningPcs

\* C3: when a manual lock and the expiry of the session's timer run
\* concurrently, every interleaving ends Locked with no keypair, no handle and
\* no pending timer; once lock has been called the state is never Locked with
\* a keypair and never goes back from Locked to Unlocked.
C3_LockRaceEndsLocked ==
    /\ [](calls >= 2 /\ Quiescent
            => /\ locked
               /\ keypair = None
               /\ timer_handle = NoTimer
               /\ \A t \in TimerIds : pc[t] # "armed")
    /\ [](calls >= 2 /\ locked => keypair = None)
    /\ [][calls >= 2 /\ locked => locked']_vars

\* The manual lock and the timer's lock have both run lines 149-153 and are
\* both about to return.
C3_Witness ==
    /\ pc[UI] = "lock_notify"
    /\ \E t \in TimerIds : pc[t] = "lock_notify"
    /\ locked
    /\ keypair = None

\* C4: a timer that lock, register_activity or a new unlock has cancelled
\* never fires lock: it changes neither the keypair, the lock state nor the
\* handle, and cancels no other timer.
C4_SupersededTimerNeverLocks ==
    [][\A t \in TimerIds :
          (t \in superseded /\ pc'[t] # pc[t])
          => (/\ UNCHANGED <<keypair, locked, timer_handle>>
              /\ \A u \in TimerIds : pc[u] = "armed" => pc'[u] = "armed")]_vars

\* An unlock has just returned its keypair and auto-lock is enabled.
PostUnlock ==
    /\ returned.op \in {"unlock", "unlock_with_keypair"}
    /\ returned.result = "ok"
    /\ inactivity_seconds > 0

\* The client is inside a call of one of the methods `ops`.
InCall(ops) ==
    \/ frame[UI].op \in ops
    \/ "lock" \in ops /\ pc[UI] \in RunningPcs

\* C5, as claimed: after a successful unlock with a positive duration, unless
\* register_activity, unlock or lock is called again, the timer eventually
\* locks the session and the keypair is gone.
C5_TimerEventuallyLocks ==
    PostUnlock ~> \/ locked /\ keypair = None
                  \/ InCall({"register_activity", "unlock", "unlock_with_keypair",
                             "lock"})

\* C5, amended: the same unless shutdown, which cancels the timer without
\* locking, is called either.
C5_TimerEventuallyLocksUnlessShutdown ==
    PostUnlock ~> \/ locked /\ keypair = None
                  \/ InCall({"register_activity", "unlock", "unlock_with_keypair",
                             "lock", "shutdown"})

\* The only call made was the unlock, and the session's timer has locked it.
C5_Witness ==
    /\ calls = 1
    /\ returned.op = "lock"
    /\ returned.who \in TimerIds
    /\ locked
    /\ keypair = None
    /\ inactivity_seconds > 0

\* C6: register_activity restarts the timer with the full duration, so no
\* timer locks the session before a full duration has passed since the most
\* recent register_activity.
C6_NoTimeoutBeforeFullDuration ==
    [][\A t \in TimerIds :
          (/\ pc[t] \in RunningPcs
           /\ pc'[t] # pc[t]
           /\ <<keypair, locked, timer_handle, trem>>' #
                  <<keypair, locked, timer_handle, trem>>)
          => sinceActivity >= inactivity_seconds]_vars

C8_UnlockPostcondition ==
    (returned.op \in {"unlock", "unlock_with_keypair"} /\ returned.result = "ok")
    => /\ ~locked
       /\ keypair = returned.frame.keypair
       /\ keypair # None
       /\ inactivity_seconds > 0
            => timer_handle # NoTimer /\ pc[timer_handle] = "armed"
       /\ returned.notified = unlock_listeners

\* C9: unlock listeners are given the public identity only: no argument
\* passed to a listener carries the secret key.
C9_ListenersGetPublicIdentityOnly ==
    returned.notified > 0 => returned.delivered.secret = None.secret

\* C10: on return from lock, called by the client or by a timer, the handle
\* is cleared and no timer is pending, the keypair is discarded, the state is
\* locked and every lock listener has been called.
C10_LockPostcondition ==
    (returned.op = "lock" /\ returned.result = "ok")
    => /\ timer_handle = NoTimer
       /\ \A t \in TimerIds : pc[t] # "armed"
       /\ keypair = None
       /\ locked
       /\ returned.notified = lock_listeners

\* C11: a lock called by the client while the manager is locked, with no
\* keypair in memory, raises nothing and none of its steps changes the lock
\* state, the keypair, the handle or any timer.
C11_LockWhileLockedIsNoOp ==
    [][(/\ frame[UI].op = "lock"
        /\ frame[UI].was_locked
        /\ pc'[UI] # pc[UI])
       => (/\ UNCHANGED <<keypair, locked, timer_handle, trem>>
           /\ \A t \in TimerIds : pc'[t] = pc[t]
           /\ returned'.result # "AttributeError")]_vars

\* Two threads of the application unlock the same manager: two calls of
\* unlock are made, by either thread at any moment, and the timers of the
\* sessions run as ever.
UnlockStep(c) ==
    \/ calls < 2 /\ \E p \in Passphrases : unlock(c, p)
    \/ unlock_salt(c)
    \/ unlock_ciphertext(c)
    \/ set_keypair(c)
    \/ set_flag(c)
    \/ timer_check(c)
    \/ timer_cancel(c)
    \/ timer_start(c)
    \/ timer_assign(c)
    \/ notify_unlock(c)

UnlockRaceNext ==
    \/ \E c \in Callers : UnlockStep(c)
    \/ \E t \in TimerIds : LockStep(t)
    \/ \E t \in TimerIds : Expire(t)
    \/ Tick

SpecUnlockRace == InitSession /\ [][UnlockRaceNext]_vars

\* The threads that are inside unlock, past its entry test (113-114).
UnlocksInFlight == {c \in Callers : frame[c].op = "unlock"}

\* C12: at most one unlock is in flight at a time: an unlock called while
\* another one is pending returns at once with Busy, reads no keystore field
\* and changes nothing.
C12_SecondUnlockFailsFastBusy ==
    [][\A c \in Callers :
          (/\ pc[c] = "idle"
           /\ UnlocksInFlight \ {c} # {}
           /\ \/ frame'[c].op = "unlock"
              \/ returned'.who = c /\ returned'.op = "unlock")
          => (/\ returned'.who = c
              /\ returned'.result = "Busy"
              /\ pc'[c] = "idle"
              /\ UNCHANGED <<keypair, locked, timer_handle, trem>>)]_vars

\* The client calls unlock in this step.
CallsUnlock(c) ==
    /\ pc[c] = "idle"
    /\ \/ frame'[c].op = "unlock"
       \/ returned'.who = c /\ returned'.op = "unlock"

\* C13: a manager is constructed locked, with no keypair and no timer, and
\* has a keystore exactly when the file exists; with no keystore, unlock
\* raises the no-keystore error (RuntimeError, 114) in its first step, calls
\* no listener and changes neither the lock state, the keypair nor any timer.
C13_NoKeystoreUnlockRaises ==
    /\ [](calls = 0 => /\ locked
                       /\ keypair = None
                       /\ timer_handle = NoTimer
                       /\ has_keystore <=> keystore_file # NoMetadata)
    /\ [][\A c \in Callers :
            (CallsUnlock(c) /\ ~has_keystore)
            => (/\ returned'.who = c
                /\ returned'.result = "RuntimeError"
                /\ returned'.notified = 0
                /\ pc'[c] = "idle"
                /\ UNCHANGED <<keypair, locked, timer_handle, trem>>
                /\ \A t \in TimerIds : pc'[t] = pc[t])]_vars

\* A manager constructed with no keystore file has just refused an unlock
\* and is as it was constructed.
C13_Witness ==
    /\ returned.op = "unlock"
    /\ returned.result = "RuntimeError"
    /\ keystore_file = NoMetadata
    /\ ~has_keystore
    /\ locked
    /\ keypair = None
    /\ timer_handle = NoTimer
    /\ \A t \in TimerIds : pc[t] = "dead"

\* A manager constructed over a malformed keystore file.
InitMalformed == \E file \in MalformedFiles : InitManager(file, Duration)

\* What the client can do with it short of replacing the record or bringing
\* a keypair of its own: try to unlock, subscribe, ping and lock.
MalformedNext ==
    \/ \E p \in Passphrases : unlock(UI, p)
    \/ unlock_salt(UI)
    \/ unlock_ciphertext(UI)
    \/ subscribe_lock(UI)
    \/ subscribe_unlock(UI)
    \/ register_activity(UI)
    \/ lock(UI)
    \/ lock_clear(UI)
    \/ lock_flag(UI)
    \/ lock_notify(UI)

SpecMalformed == InitMalformed /\ [][MalformedNext]_vars

\* C14: a malformed keystore file is treated as an absent one: while it is
\* on disk has_keystore is false, and every unlock raises the no-keystore
\* error (RuntimeError, 114) without going on to read or decrypt the record.
C14_MalformedIsAbsent ==
    keystore_file \in MalformedFiles
    => /\ ~has_keystore
       /\ \A c \in Callers : frame[c].op # "unlock"
       /\ returned.op = "unlock" => returned.result = "RuntimeError"

\* The keystore is persisted twice, first with passphrase P1 and then with
\* another one, and then unlocked.
P1 == <<1>>

RepersistNext ==
    \/ calls = 0 /\ \E k \in Keypairs, s \in Salts : persist_keystore(UI, P1, k, s)
    \/ calls = 1 /\ \E p \in Passphrases \ {P1}, k \in Keypairs, s \in Salts :
                        persist_keystore(UI, p, k, s)
    \/ persist_assign(UI)
    \/ calls = 2 /\ \E p \in Passphrases : unlock(UI, p)
    \/ unlock_salt(UI)
    \/ unlock_ciphertext(UI)
    \/ set_keypair(UI)
    \/ set_flag(UI)
    \/ timer_check(UI)
    \/ timer_start(UI)
    \/ timer_assign(UI)
    \/ notify_unlock(UI)
    \/ \E t \in TimerIds : LockStep(t)
    \/ \E t \in TimerIds : Expire(t)
    \/ Tick

SpecRepersist == Init /\ [][RepersistNext]_vars

\* C15: persist_keystore replaces the record wholesale: on its return the
\* file and the metadata are the new record and a keystore is present; after
\* persist(P1, s1) and persist(P2, s2) with P2 # P1, unlock(P2) returns a
\* keypair with the public key of the record, s2's, and unlock(P1) raises the
\* wrong-passphrase error (ValueError, 129).
C15_RepersistReplaces ==
    /\ returned.op = "persist_keystore"
         => /\ keystore_file = returned.frame.metadata
            /\ keystore_metadata = returned.frame.metadata
            /\ has_keystore
    /\ (calls = 3 /\ returned.op = "unlock")
         => /\ returned.frame.metadata = keystore_file
            /\ returned.frame.passphrase = keystore_file.passphrase
                 => /\ returned.result = "ok"
                    /\ returned.frame.keypair.pubkey = keystore_file.public_key
            /\ returned.frame.passphrase = P1 => returned.result = "ValueError"

\* The client calls register_activity in this step.
CallsRegisterActivity(c) ==
    /\ pc[c] = "idle"
    /\ \/ frame'[c].op = "register_activity"
       \/ returned'.who = c /\ returned'.op = "register_activity"

\* C16: register_activity called while the manager is locked returns in its
\* first step, without error, and changes nothing: no timer is armed or
\* cancelled, the lock state, the keypair and the handle stay as they are and
\* no listener is called.
C16_RegisterActivityWhileLocked ==
    [][\A c \in Callers :
          (CallsRegisterActivity(c) /\ locked)
          => (/\ returned'.who = c
              /\ returned'.result = "ok"
              /\ returned'.notified = 0
              /\ pc'[c] = "idle"
              /\ UNCHANGED <<keypair, locked, timer_handle, trem>>
              /\ \A t \in TimerIds : pc'[t] = pc[t])]_vars

\* register_activity has just returned on a locked manager with auto-lock
\* enabled: no keypair, no handle, no timer.
C16_Witness ==
    /\ returned.op = "register_activity"
    /\ returned.result = "ok"
    /\ inactivity_seconds > 0
    /\ locked
    /\ keypair = None
    /\ timer_handle = NoTimer
    /\ \A t \in TimerIds : pc[t] = "dead"

\* C17: with inactivity_seconds = 0 no timer is ever created, by unlock,
\* unlock_with_keypair or register_activity, and an unlocked manager becomes
\* locked only by line 153 of a lock the client called.
C17_ZeroDurationDisablesAutoLock ==
    /\ [](inactivity_seconds = 0
            => /\ timer_handle = NoTimer
               /\ \A t \in TimerIds : pc[t] = "dead" /\ trem[t] = 0)
    /\ [][(inactivity_seconds = 0 /\ ~locked /\ locked')
           => \E c \in Callers : pc[c] = "lock_flag" /\ pc'[c] = "lock_notify"]_vars

\* With auto-lock disabled, the client unlocked, and its register_activity
\* has just returned: still unlocked, the keypair in memory.
C17_Witness ==
    /\ inactivity_seconds = 0
    /\ returned.op = "register_activity"
    /\ returned.result = "ok"
    /\ ~locked
    /\ keypair # None

\* C18: the listeners are called in the state their call produced: when
\* lock is at its listeners (154-155) the manager is locked with no keypair,
\* and when _set_unlocked is at its listeners (143-144) the manager is
\* unlocked with the keypair of that call.
C18_ListenersObserveTheirTransition ==
    /\ \A th \in Threads :
          (pc[th] = "lock_notify" /\ lock_listeners > 0)
          => locked /\ keypair = None
    /\ \A c \in Callers :
          (pc[c] = "notify_unlock" /\ unlock_listeners > 0)
          => ~locked /\ keypair = frame[c].keypair

\* ------------------------------------------------------- endpoint registry
\* The pool of a network and its active endpoint (current_endpoint_status).
Pool(n) == endpoints[n]
Active(n) == endpoints[n][active_index[n] + 1]

\* The urls of a pool are 1, 2, ... in pool order; StaleUrl is a url no pool
\* holds any more.
StaleUrl == MaxPool + 1
Urls == 1..StaleUrl
UrlsOf(pool) == {pool[i].url : i \in 1..Len(pool)}

\* The pools "Devnet" may be configured with: one to MaxPool endpoints, each
\* with priority 0 or 1.  "Mainnet" keeps its default endpoint.
RECURSIVE PoolsOfSize(_)
PoolsOfSize(k) ==
    IF k = 0 THEN {<<>>}
    ELSE {Append(pool, EndpointStatus(k, prio)) :
              pool \in PoolsOfSize(k - 1), prio \in {0, 1}}

ConfiguredPools == UNION {PoolsOfSize(k) : k \in 1..MaxPool}

InitRegistry ==
    /\ InitVault(NoMetadata, 0)
    /\ \E pool \in ConfiguredPools :
          InitEndpoints([_default_endpoint_matrix EXCEPT !["Devnet"] = pool])

\* WalletState.switch_network (wallet.py 203-206).
switch_network(n) ==
    /\ network' = n
    /\ rotation' = NoRotation
    /\ selected' = NoUrl
    /\ reply' = Reply("switch_network", n, NoUrl, "ok", 0)
    /\ UNCHANGED <<vault, console, monitor, endpoints, active_index, controller_keypair>>

\* WalletController.generate_ephemeral (451-459) and import_secret (461-466):
\* the controller holds a keypair from then on.
_apply_keypair ==
    /\ controller_keypair' = TRUE
    /\ public_key' = TRUE
    /\ wallet_locked' = FALSE
    /\ rotation' = NoRotation
    /\ selected' = NoUrl
    /\ reply' = Reply("_apply_keypair", network, NoUrl, "ok", 0)
    /\ UNCHANGED <<vault, monitor, activity_list, failed_transfers, errors,
                   plan, network, endpoints, active_index>>

\* record_result: the endpoint of that url takes the result; a url the pool
\* does not hold is ignored.
\* Faulty variant: a url the pool does not hold is recorded for its first
\* endpoint.
RecordResultOnFirst(pool, url, healthy, latency_ms) ==
    [i \in 1..Len(pool) |->
        IF pool[i].url = url \/ (i = 1 /\ \A j \in 1..Len(pool) : pool[j].url # url)
        THEN mark_result(pool[i], healthy, latency_ms)
        ELSE pool[i]]

RecordResult(pool, url, healthy, latency_ms) ==
    [i \in 1..Len(pool) |->
        IF pool[i].url = url THEN mark_result(pool[i], healthy, latency_ms)
        ELSE pool[i]]

\* Results arrive for the urls of the pool and for the stale url.
record_result(n, url, healthy, latency_ms) ==
    /\ url \in UrlsOf(endpoints[n]) \cup {StaleUrl}
    /\ endpoints' = [endpoints EXCEPT
                        ![n] = RecordResult(endpoints[n], url, healthy, latency_ms)]
    /\ rotation' = NoRotation
    /\ selected' = NoUrl
    /\ reply' = Reply("record_result", n, url, "ok", 0)
    /\ UNCHANGED <<vault, console, monitor, network, active_index, controller_keypair>>

\* The url of the endpoint an index names, none when it names no endpoint.
UrlAt(pool, i) == IF i + 1 \in 1..Len(pool) THEN pool[i + 1].url ELSE NoUrl

\* Faulty variant: the candidates in pool order from the first one.
ScanOrderFromStart(pool, i) == [k \in 1..Len(pool) |-> k - 1]

\* The indexes advance examines, in order: those after the active one in pool
\* order, wrapping around, the active one last.
ScanOrder(pool, i) == [k \in 1..Len(pool) |-> (i + k) % Len(pool)]

\* Faulty variant: the next index without wrapping around.
AdvanceIndexUnwrapped(pool, i) == i + 1

\* advance: the first candidate after the active one, in pool order and
\* wrapping around, that is not unhealthy; the next index when every candidate
\* is unhealthy.
AdvanceIndex(pool, i) ==
    LET order == ScanOrder(pool, i)
        usable == {k \in 1..Len(pool) : pool[order[k] + 1].healthy # "False"}
    IN IF usable = {} THEN order[1]
       ELSE order[CHOOSE k \in usable : \A j \in usable : k <= j]

\* advance, rotate and a probe pass on a network without endpoints fail and
\* change nothing.
Unconfigured(op, n) ==
    /\ reply' = Reply(op, n, NoUrl, "NoEndpointsConfigured", 0)
    /\ rotation' = NoRotation
    /\ selected' = NoUrl
    /\ UNCHANGED <<vault, console, monitor, network, endpoints, active_index, controller_keypair>>

\* Faulty variant: advance stays where it is when every candidate is
\* unhealthy.
advance_stalled(n) ==
    IF endpoints[n] = <<>> THEN Unconfigured("advance", n)
    ELSE /\ active_index' =
             IF \A i \in 1..Len(endpoints[n]) : endpoints[n][i].healthy = "False"
             THEN active_index
             ELSE [active_index EXCEPT ![n] = AdvanceIndex(endpoints[n], @)]
         /\ rotation' = NoRotation
         /\ selected' = NoUrl
         /\ reply' = Reply("advance", n, UrlAt(endpoints[n], active_index'[n]), "ok", 0)
         /\ UNCHANGED <<vault, console, monitor, network, endpoints, controller_keypair>>

advance(n) ==
    IF endpoints[n] = <<>> THEN Unconfigured("advance", n)
    ELSE /\ active_index' = [active_index EXCEPT ![n] = AdvanceIndex(endpoints[n], @)]
         /\ rotation' = NoRotation
         /\ selected' = NoUrl
         /\ reply' = Reply("advance", n, UrlAt(endpoints[n], active_index'[n]), "ok", 0)
         /\ UNCHANGED <<vault, console, monitor, network, endpoints, controller_keypair>>

\* Faulty variant: rotate emits its event only when the active endpoint
\* changes.
rotate_quiet(n, reason) ==
    IF endpoints[n] = <<>> THEN Unconfigured("rotate", n)
    ELSE /\ active_index' = [active_index EXCEPT ![n] = AdvanceIndex(endpoints[n], @)]
         /\ rotation' = IF active_index'[n] = active_index[n] THEN NoRotation
                        ELSE Rotation(n, active_index[n], active_index'[n], reason)
         /\ selected' = NoUrl
         /\ reply' = Reply("rotate", n, UrlAt(endpoints[n], active_index'[n]), "ok", 0)
         /\ UNCHANGED <<vault, console, monitor, network, endpoints, controller_keypair>>

\* rotate: a forced advance that always emits a rotation event with the
\* caller's reason.
rotate(n, reason) ==
    IF endpoints[n] = <<>> THEN Unconfigured("rotate", n)
    ELSE /\ active_index' = [active_index EXCEPT ![n] = AdvanceIndex(endpoints[n], @)]
         /\ rotation' = Rotation(n, active_index[n], active_index'[n], reason)
         /\ selected' = NoUrl
         /\ reply' = Reply("rotate", n, UrlAt(endpoints[n], active_index'[n]), "ok", 0)
         /\ UNCHANGED <<vault, console, monitor, network, endpoints, controller_keypair>>

\* update_endpoint_health: a health update for the active endpoint of the
\* active network; an unhealthy one with auto_rotate rotates with the
\* update's reason.
update_endpoint_health(healthy, latency_ms, reason, auto_rotate) ==
    IF endpoints[network] = <<>> THEN Unconfigured("update_endpoint_health", network)
    ELSE LET n == network
             updated == [endpoints[n] EXCEPT ![active_index[n] + 1] =
                            mark_result(@, healthy, latency_ms)]
             rotates == ~healthy /\ auto_rotate
         IN /\ endpoints' = [endpoints EXCEPT ![n] = updated]
            /\ active_index' = IF rotates
                               THEN [active_index EXCEPT ![n] = AdvanceIndex(updated, @)]
                               ELSE active_index
            /\ rotation' = IF rotates
                           THEN Rotation(n, active_index[n], active_index'[n], reason)
                           ELSE NoRotation
            /\ selected' = NoUrl
            /\ reply' = Reply("update_endpoint_health", n,
                              UrlAt(endpoints[n], active_index[n]),
                              IF healthy THEN "healthy" ELSE "unhealthy", 0)
            /\ UNCHANGED <<vault, console, monitor, network, controller_keypair>>

\* NetworkMonitor._ping_endpoint (59-69): (healthy, latency) of an answer,
\* (False, None) of an exception.
PingResults == {<<TRUE, Measured>>, <<FALSE, Measured>>, <<FALSE, NoLatency>>}

\* Faulty variant: a pass that leaves an unhealthy active endpoint active.
_poll_unadvanced(timer) ==
    IF endpoints[network] = <<>>
    THEN /\ reply' = Reply("_poll", network, NoUrl, "NoEndpointsConfigured", 0)
         /\ rotation' = NoRotation
         /\ selected' = NoUrl
         /\ monitor' = timer
         /\ UNCHANGED <<vault, console, network, endpoints, active_index,
                        controller_keypair>>
    ELSE
    \E results \in [1..Len(endpoints[network]) -> PingResults] :
        LET pool == endpoints[network]
            checked == [i \in 1..Len(pool) |->
                           mark_result(pool[i], results[i][1], results[i][2])]
        IN /\ endpoints' = [endpoints EXCEPT ![network] = checked]
           /\ rotation' = NoRotation
           /\ selected' = NoUrl
           /\ reply' = Reply("_poll", network, NoUrl, "ok", Len(pool))
           /\ monitor' = timer
           /\ UNCHANGED <<vault, console, network, active_index, controller_keypair>>

\* NetworkMonitor._poll (46-57), a callback of the event loop: every endpoint
\* of the network active now is pinged and its result recorded, then an
\* unhealthy active endpoint is left for the next one.  Without endpoints
\* there is nothing to ping and no active endpoint to look at.  `timer` is
\* the monitor's timer after the pass, as the caller of the pass leaves it.
_poll(timer) ==
    IF endpoints[network] = <<>>
    THEN /\ reply' = Reply("_poll", network, NoUrl, "NoEndpointsConfigured", 0)
         /\ rotation' = NoRotation
         /\ selected' = NoUrl
         /\ monitor' = timer
         /\ UNCHANGED <<vault, console, network, endpoints, active_index,
                        controller_keypair>>
    ELSE
    \E results \in [1..Len(endpoints[network]) -> PingResults] :
        LET pool == endpoints[network]
            checked == [i \in 1..Len(pool) |->
                           mark_result(pool[i], results[i][1], results[i][2])]
        IN /\ endpoints' = [endpoints EXCEPT ![network] = checked]
           /\ active_index' =
                 IF checked[active_index[network] + 1].healthy = "False"
                 THEN [active_index EXCEPT ![network] = AdvanceIndex(checked, @)]
                 ELSE active_index
           /\ rotation' = NoRotation
           /\ selected' = NoUrl
           /\ reply' = Reply("_poll", network, NoUrl, "ok", Len(pool))
           /\ monitor' = timer
           /\ UNCHANGED <<vault, console, network, controller_keypair>>

\* WalletController.select_endpoint (875-887): the rank of a health, the sort
\* key, and the first endpoint of the pool sorted by key; the sort is stable.
\* Faulty variant: unknown health ranked before healthy.
health_rank_unknown_first(ep) ==
    IF ep.healthy = "None" THEN 0 ELSE IF ep.healthy = "True" THEN 1 ELSE 2

health_rank(ep) ==
    IF ep.healthy = "True" THEN 0 ELSE IF ep.healthy = "None" THEN 1 ELSE 2

sort_key(ep) == <<health_rank(ep), ep.priority>>

KeyLess(a, b) == a[1] < b[1] \/ (a[1] = b[1] /\ a[2] < b[2])

\* Faulty variant: the endpoints sorted by priority alone.
select_endpoint_by_priority(pool) ==
    pool[CHOOSE i \in 1..Len(pool) :
            \A j \in 1..Len(pool) :
                \/ pool[i].priority < pool[j].priority
                \/ (pool[i].priority = pool[j].priority /\ i <= j)]

select_endpoint(pool) ==
    pool[CHOOSE i \in 1..Len(pool) :
            \A j \in 1..Len(pool) :
                \/ KeyLess(sort_key(pool[i]), sort_key(pool[j]))
                \/ (sort_key(pool[i]) = sort_key(pool[j]) /\ i <= j)]

\* select_endpoint, lines 878-880: RuntimeError("No endpoints configured for
\* the requested network"), raised to the caller of the operation before any
\* request is sent.
\* Faulty variant: the operation goes on without an endpoint and returns its
\* substitute value.
NoEndpointsUnraised(op) ==
    /\ reply' = Reply(op, network, NoUrl, "substitute", 1)
    /\ rotation' = NoRotation
    /\ selected' = NoUrl
    /\ UNCHANGED <<vault, console, monitor, network, endpoints, active_index, controller_keypair>>

NoEndpoints(op) ==
    /\ reply' = Reply(op, network, NoUrl, "RuntimeError", 0)
    /\ rotation' = NoRotation
    /\ selected' = NoUrl
    /\ UNCHANGED <<vault, console, monitor, network, endpoints, active_index, controller_keypair>>

\* mark_endpoint_failed (889-892) and _mark_endpoint_healthy (894-897) on the
\* endpoint object of the pool.
mark_endpoint_failed(endpoint) == mark_result(endpoint, FALSE, NoLatency)

_mark_endpoint_healthy(endpoint) == mark_result(endpoint, TRUE, endpoint.latency_ms)

\* The request of a remote operation (the try block of 486-496, 507-514 and
\* 520-528): it goes to the selected endpoint once; the endpoint is marked
\* healthy when it answers, failed when the request raises, and the operation
\* then returns a substitute value.
Requested(pool, answered) ==
    LET endpoint == select_endpoint(pool)
        marked == IF answered THEN _mark_endpoint_healthy(endpoint)
                  ELSE mark_endpoint_failed(endpoint)
    IN [i \in 1..Len(pool) |->
           IF pool[i].url = endpoint.url THEN marked ELSE pool[i]]

Request(op, answered) ==
    LET endpoint == select_endpoint(endpoints[network])
    IN /\ selected' = endpoint.url
       /\ endpoints' = [endpoints EXCEPT ![network] = Requested(@, answered)]
       /\ rotation' = NoRotation
       /\ reply' = Reply(op, network, endpoint.url,
                         IF answered THEN "ok" ELSE "substitute", 1)
       /\ UNCHANGED <<vault, console, monitor, network, active_index, controller_keypair>>

\* WalletController.refresh_balance (478-496): None without a keypair.
refresh_balance(answered) ==
    IF ~controller_keypair
    THEN /\ reply' = Reply("refresh_balance", network, NoUrl, "no_keypair", 0)
         /\ rotation' = NoRotation
         /\ selected' = NoUrl
         /\ UNCHANGED <<vault, console, monitor,
                        network, endpoints, active_index, controller_keypair>>
    ELSE IF endpoints[network] = <<>> THEN NoEndpoints("refresh_balance")
    ELSE Request("refresh_balance", answered)

\* WalletController.fetch_recent_blockhash (498-514): the request goes to the
\* selected endpoint, which is marked healthy when it answers and failed when
\* it does not.
fetch_recent_blockhash(answered) ==
    IF endpoints[network] = <<>> THEN NoEndpoints("fetch_recent_blockhash")
    ELSE Request("fetch_recent_blockhash", answered)

\* WalletController.estimate_fee (516-531).
estimate_fee(answered) ==
    IF endpoints[network] = <<>> THEN NoEndpoints("estimate_fee")
    ELSE Request("estimate_fee", answered)

RemoteOps == {"refresh_balance", "fetch_recent_blockhash", "estimate_fee"}

\* The registry under the health monitor's passes, the results and
\* failures reported by remote operations, advance, rotate and the user's
\* switching networks, in any order.
RegistryNext ==
    \/ \E n \in Networks : switch_network(n)
    \/ \E n \in Networks, u \in Urls, r \in PingResults :
          record_result(n, u, r[1], r[2])
    \/ \E n \in Networks : advance(n)
    \/ \E n \in Networks : rotate(n, "Failover drill")
    \/ _poll(monitor)
    \/ \E answered \in BOOLEAN : fetch_recent_blockhash(answered)

SpecRegistry == InitRegistry /\ [][RegistryNext]_vars

\* The remote operations of the controller on pools of no to MaxPool
\* endpoints, between the health monitor's passes and the user's switching
\* networks and loading a keypair.
InitRemote ==
    /\ InitVault(NoMetadata, 0)
    /\ \E pool \in ConfiguredPools \cup {<<>>} :
          InitEndpoints([_default_endpoint_matrix EXCEPT !["Devnet"] = pool])

RemoteNext ==
    \/ \E n \in Networks : switch_network(n)
    \/ _apply_keypair
    \/ _poll(monitor)
    \/ \E answered \in BOOLEAN : refresh_balance(answered)
    \/ \E answered \in BOOLEAN : fetch_recent_blockhash(answered)
    \/ \E answered \in BOOLEAN : estimate_fee(answered)

SpecRemote == InitRemote /\ [][RemoteNext]_vars

\* C19: for every network and in every state, under any interleaving of probe
\* passes, reported results and failures, advance and rotate, active_index is
\* an index of the network's pool, so exactly one endpoint of the pool is the
\* active one.
C19_ActiveIndexValid ==
    \A n \in Networks :
        /\ active_index[n] \in 0..(Len(Pool(n)) - 1)
        /\ Cardinality({i \in 1..Len(Pool(n)) : Pool(n)[i] = Active(n)}) = 1

\* A rotate has just gone from the last endpoint of a pool of two or more
\* around to the first.
C19_Witness ==
    /\ rotation.network = "Devnet"
    /\ Len(Pool("Devnet")) >= 2
    /\ rotation.previous = Len(Pool("Devnet")) - 1
    /\ rotation.current = 0
    /\ active_index["Devnet"] = 0

\* The endpoint of the active network's pool that has this url.
Selected(url) ==
    LET pool == endpoints[network]
    IN pool[CHOOSE i \in 1..Len(pool) : pool[i].url = url]

AllUnhealthy(pool) == \A i \in 1..Len(pool) : pool[i].healthy = "False"

\* C20: after any sequence of recorded results, the endpoint a remote
\* operation selects is unhealthy only if every endpoint of the pool is; in a
\* pool [A, B] with A recorded unhealthy and B recorded healthy, it is B.
C20_SelectAvoidsUnhealthy ==
    [][selected' # NoUrl =>
         LET pool == endpoints[network]
         IN /\ Selected(selected').healthy = "False" => AllUnhealthy(pool)
            /\ (/\ Len(pool) = 2
                /\ pool[1].healthy = "False"
                /\ pool[2].healthy = "True") => selected' = pool[2].url]_vars

\* A remote operation has selected B of a pool [A, B] where A is recorded
\* unhealthy, and B has answered.
C20_Witness ==
    /\ Len(endpoints[network]) = 2
    /\ selected = endpoints[network][2].url
    /\ endpoints[network][1].healthy = "False"
    /\ endpoints[network][2].healthy = "True"

\* C21: a remote operation goes to the active endpoint of its network and
\* leaves active_index as it is whenever that endpoint is healthy or unknown;
\* only when the active endpoint is unhealthy does it advance first and go to
\* the new active endpoint.
C21_SelectKeepsActive ==
    [][(reply'.op \in RemoteOps /\ selected' # NoUrl) =>
          IF Active(network).healthy # "False"
          THEN /\ selected' = Active(network).url
               /\ active_index' = active_index
          ELSE /\ active_index' = [active_index EXCEPT ![network] =
                                      AdvanceIndex(endpoints[network], @)]
               /\ selected' = endpoints[network][active_index'[network] + 1].url]_vars

\* The steps in which advance returns for a network with endpoints.
Advances(n) == reply'.op = "advance" /\ reply'.network = n /\ reply'.status = "ok"

\* C22: advance examines the candidates in pool order from the index after
\* active_index, wrapping around, sets active_index to the first one that is
\* healthy or unknown, and returns that endpoint.
C22_AdvancePicksFirstUsable ==
    [][\A n \in Networks :
          (Advances(n) /\ ~AllUnhealthy(endpoints[n])) =>
              LET pool == endpoints[n]
                  len == Len(pool)
                  i == active_index[n]
                  j == active_index'[n]
              IN /\ pool[j + 1].healthy # "False"
                 /\ \E k \in 1..len :
                       /\ (i + k) % len = j
                       /\ \A before \in 1..(k - 1) :
                             pool[((i + before) % len) + 1].healthy = "False"
                 /\ reply'.url = pool[j + 1].url
                 /\ endpoints' = endpoints]_vars

\* advance has just returned the first endpoint of a pool whose second and
\* last endpoint is unhealthy: the scan went past the end of the pool.
C22_Witness ==
    /\ reply.op = "advance"
    /\ reply.network = "Devnet"
    /\ Len(endpoints["Devnet"]) = 2
    /\ active_index["Devnet"] = 0
    /\ endpoints["Devnet"][1].healthy # "False"
    /\ endpoints["Devnet"][2].healthy = "False"
    /\ reply.url = endpoints["Devnet"][1].url

Executes == reply'.op \in RemoteOps /\ reply'.status # "no_keypair"

\* The endpoint of the active network's pool, after the step, that the
\* operation used.
Used == LET pool == endpoints'[network]
        IN pool[CHOOSE i \in 1..Len(pool) : pool[i].url = reply'.url]

\* C24: every remote operation on a network with endpoints ends after at most
\* pool_size requests, either returning the operation's result or raising
\* AllEndpointsUnreachable, also between the health monitor's passes.
C24_ExecuteTerminates ==
    [][(Executes /\ endpoints[network] # <<>>) =>
          /\ reply'.attempts <= Len(endpoints[network])
          /\ reply'.status \in {"ok", "AllEndpointsUnreachable"}]_vars

\* C25: a remote operation whose requests all fail raises
\* AllEndpointsUnreachable after exactly pool_size requests; in a pool of two
\* that is two requests and one rotation event.
C25_AllFailRaises ==
    [][(Executes /\ endpoints[network] # <<>> /\ reply'.status # "ok") =>
          /\ reply'.status = "AllEndpointsUnreachable"
          /\ reply'.attempts = Len(endpoints[network])
          /\ Len(endpoints[network]) = 2 => rotation' # NoRotation]_vars

\* C26: a remote operation that succeeds records a healthy result with the
\* measured latency for the endpoint it used and returns the operation's
\* result.
C26_SuccessRecordsLatency ==
    [][(Executes /\ reply'.status = "ok") =>
          /\ Used.healthy = "True"
          /\ Used.latency_ms = Measured
          /\ Used.last_checked]_vars

\* C27: every remote operation goes to the endpoint selection gives, leaves it
\* healthy after a success and unhealthy after a failure, and retries a
\* failure on the next candidate: it gives up only when as many requests as
\* the pool has candidates have failed.
C27_UniformFailover ==
    [][(Executes /\ endpoints[network] # <<>>) =>
          /\ reply'.attempts >= 1
          /\ selected' = select_endpoint(endpoints[network]).url
          /\ Used.healthy = IF reply'.status = "ok" THEN "True" ELSE "False"
          /\ reply'.status # "ok" => reply'.attempts = Len(endpoints[network])]_vars

\* C28: on a network without endpoints every remote operation fails at once
\* with the error of select, before any request is sent and without changing
\* any state.
C28_NoEndpointsFailFast ==
    [][(Executes /\ endpoints[network] = <<>>) =>
          /\ reply'.status = "RuntimeError"
          /\ reply'.attempts = 0
          /\ selected' = NoUrl
          /\ UNCHANGED <<vault, console, monitor, network, endpoints, active_index,
                         controller_keypair>>]_vars

\* A balance query with a keypair has just failed on the network without
\* endpoints.
C28_Witness ==
    /\ endpoints[network] = <<>>
    /\ controller_keypair
    /\ reply.op = "refresh_balance"
    /\ reply.status = "RuntimeError"

\* One health comes before another: healthy before unknown before unhealthy.
HealthBefore(a, b) ==
    \/ a = "True" /\ b # "True"
    \/ a = "None" /\ b = "False"

\* C29: the endpoint a remote operation selects has the best health of its
\* pool (healthy before unknown before unhealthy), the lowest priority number
\* among the endpoints of that health, and the first place in pool order
\* among those of that health and priority.
C29_SelectionOrder ==
    [][selected' # NoUrl =>
          LET pool == endpoints[network]
              i == CHOOSE k \in 1..Len(pool) : pool[k].url = selected'
          IN \A j \in 1..Len(pool) :
                /\ ~HealthBefore(pool[j].healthy, pool[i].healthy)
                /\ pool[j].healthy = pool[i].healthy =>
                      pool[i].priority <= pool[j].priority
                /\ (/\ pool[j].healthy = pool[i].healthy
                    /\ pool[j].priority = pool[i].priority) => i <= j]_vars

\* A remote operation has gone to the first endpoint of a pool of two although
\* the second, of unknown health, has the lower priority number: the first was
\* healthy, and health came before priority.
C29_Witness ==
    /\ Len(endpoints[network]) = 2
    /\ selected = endpoints[network][1].url
    /\ endpoints[network][1].priority > endpoints[network][2].priority
    /\ endpoints[network][2].healthy = "None"

\* The steps in which record_result returns for a network and a url.
Records(n, url) ==
    reply'.op = "record_result" /\ reply'.network = n /\ reply'.url = url

\* C30: record_result with a url the pool of the network does not hold raises
\* no error and leaves every endpoint and active_index as they are; with a url
\* of the pool it changes the health, latency and last_checked of that
\* endpoint only.
C30_RecordResultFrame ==
    [][\A n \in Networks, url \in Urls :
          Records(n, url) =>
              /\ reply'.status = "ok"
              /\ active_index' = active_index
              /\ Len(endpoints'[n]) = Len(endpoints[n])
              /\ \A other \in Networks \ {n} : endpoints'[other] = endpoints[other]
              /\ \A i \in 1..Len(endpoints[n]) :
                    IF endpoints[n][i].url = url
                    THEN /\ endpoints'[n][i].url = url
                         /\ endpoints'[n][i].priority = endpoints[n][i].priority
                         /\ endpoints'[n][i].last_checked
                    ELSE endpoints'[n][i] = endpoints[n][i]]_vars

\* record_result has just returned for a url that no pool holds, on a pool
\* with a result recorded earlier and on one without.
C30_Witness ==
    /\ reply.op = "record_result"
    /\ reply.url = StaleUrl
    /\ reply.network = "Devnet"
    /\ endpoints["Devnet"][1].healthy = "False"
    /\ endpoints["Mainnet"][1].healthy = "None"

\* Rotations asked for by callers and rotations following health updates, on
\* pools of one to MaxPool endpoints in any state of health.
RotationNext ==
    \/ \E n \in Networks : switch_network(n)
    \/ \E n \in Networks, reason \in Reasons : rotate(n, reason)
    \/ \E r \in PingResults, reason \in Reasons, auto_rotate \in BOOLEAN :
          update_endpoint_health(r[1], r[2], reason, auto_rotate)

SpecRotation == InitRegistry /\ [][RotationNext]_vars

C32_ProbePass ==
    [][(reply'.op = "_poll" /\ reply'.status = "ok") =>
          /\ reply'.network = network
          /\ network' = network
          /\ reply'.attempts = Len(endpoints[network])
          /\ \A i \in 1..Len(endpoints[network]) :
                /\ endpoints'[network][i].last_checked
                /\ endpoints'[network][i].url = endpoints[network][i].url
          /\ \A other \in Networks \ {network} :
                /\ endpoints'[other] = endpoints[other]
                /\ active_index'[other] = active_index[other]
          /\ endpoints'[network][active_index'[network] + 1].healthy = "False"
                => AllUnhealthy(endpoints'[network])]_vars

\* A pass has just ended on a pool of two whose first endpoint was found
\* unhealthy and whose second, found usable, is the active one.
C32_Witness ==
    /\ reply.op = "_poll"
    /\ Len(endpoints[network]) = 2
    /\ endpoints[network][1].healthy = "False"
    /\ endpoints[network][2].healthy = "True"
    /\ active_index[network] = 1

\* ------------------------------------------------------- health monitor
\* The monitor's timer after a call or an event `op` on the monitor.
Called(op) == [monitor EXCEPT !.last = op, !.was_active = monitor.active]

\* NetworkMonitor.start (30-34): a pass, then the timer is started, or started
\* again when it runs.  A pass that raises leaves start before the timer is
\* started.
start ==
    IF endpoints[network] = <<>> THEN _poll(Called("start"))
    ELSE _poll([Called("start") EXCEPT !.active = TRUE, !.elapsed = 0])

\* NetworkMonitor.stop (36-39): QTimer.stop().
\* Faulty variant: the timer is left running.
stop_running ==
    /\ monitor' = Called("stop")
    /\ reply' = Reply("stop", network, NoUrl, "ok", 0)
    /\ rotation' = NoRotation
    /\ selected' = NoUrl
    /\ UNCHANGED <<vault, console, network, endpoints, active_index,
                   controller_keypair>>

stop ==
    /\ monitor' = [Called("stop") EXCEPT !.active = FALSE, !.elapsed = 0]
    /\ reply' = Reply("stop", network, NoUrl, "ok", 0)
    /\ rotation' = NoRotation
    /\ selected' = NoUrl
    /\ UNCHANGED <<vault, console, network, endpoints, active_index,
                   controller_keypair>>

\* NetworkMonitor.force_poll (41-44).
force_poll == _poll(Called("force_poll"))

\* The timer's timeout signal, connected to _poll (line 28): it fires when the
\* interval has elapsed on a running timer, which then starts over.
timeout ==
    /\ monitor.active
    /\ monitor.elapsed = monitor.interval_ms
    /\ _poll([Called("timeout") EXCEPT !.elapsed = 0])

\* A second passes on a running timer that is not due.
Second == 1000

second_passes ==
    /\ monitor.active
    /\ monitor.elapsed + Second <= monitor.interval_ms
    /\ monitor' = [Called("second") EXCEPT !.elapsed = @ + Second]
    /\ UNCHANGED <<vault, console, registry>>

\* The seconds a caller may ask for: below, at the ends of, inside and above
\* the range.
RequestedIntervals == {0 - 5, 0, 14, 15, 16, ConsoleInterval, DefaultInterval,
                       59, 60, 61, 120}

InitMonitor ==
    /\ InitVault(NoMetadata, 0)
    /\ \E interval_seconds \in RequestedIntervals :
          InitConsole(_default_endpoint_matrix, interval_seconds, NoPlan)

MonitorNext ==
    \/ start
    \/ stop
    \/ force_poll
    \/ timeout
    \/ second_passes

SpecMonitor == InitMonitor /\ [][MonitorNext]_vars

\* C33: the monitor's poll interval is the requested value clamped into 15 to
\* 60 seconds: a request below 15 gives 15 seconds, one above 60 gives 60, and
\* a value in between is used as it is; the timer never runs past it.
C33_IntervalClamped ==
    /\ monitor.requested < 15 => monitor.interval_ms = 15 * 1000
    /\ monitor.requested > 60 => monitor.interval_ms = 60 * 1000
    /\ (monitor.requested >= 15 /\ monitor.requested <= 60)
          => monitor.interval_ms = monitor.requested * 1000
    /\ monitor.elapsed <= monitor.interval_ms

\* A scheduled pass has run on a monitor asked for more than 60 seconds.
C33_Witness ==
    /\ monitor.requested > 60
    /\ monitor.last = "timeout"
    /\ reply.op = "_poll"

\* C34: start runs one pass at once and starts the schedule; a scheduled pass
\* runs only on a started monitor, when a whole interval has passed since start
\* or the pass before, so none runs after stop until start is called again;
\* stop on a stopped or never started monitor changes nothing and raises
\* nothing.
C34_StartStop ==
    [][/\ monitor'.last = "start"
          => /\ reply'.op = "_poll" /\ reply'.status = "ok"
             /\ reply'.attempts = Len(endpoints[network])
             /\ monitor'.active /\ monitor'.elapsed = 0
       /\ monitor'.last = "timeout"
          => /\ monitor.active /\ monitor.elapsed = monitor.interval_ms
             /\ reply'.op = "_poll" /\ reply'.status = "ok"
             /\ monitor'.active /\ monitor'.elapsed = 0
       /\ (~monitor.active /\ reply'.op = "_poll")
          => monitor'.last \in {"start", "force_poll"}
       /\ monitor'.last = "stop"
          => /\ ~monitor'.active
             /\ reply'.status = "ok"
             /\ UNCHANGED <<vault, console, network, endpoints, active_index>>
             /\ ~monitor.active
                   => /\ monitor'.interval_ms = monitor.interval_ms
                      /\ monitor'.elapsed = monitor.elapsed
                      /\ monitor'.requested = monitor.requested]_vars

\* stop has been called on a monitor that was not running.
C34_Witness ==
    /\ monitor.last = "stop"
    /\ ~monitor.was_active
    /\ ~monitor.active

\* ------------------------------------------------------- console handlers
\* WalletState.toggle_lock (wallet.py 198-201), the whole of what
\* TreasuryConsole._toggle_lock (app.py 710-715) changes.
toggle_lock ==
    /\ wallet_locked' = ~wallet_locked
    /\ errors' = <<>>
    /\ rotation' = NoRotation
    /\ selected' = NoUrl
    /\ reply' = Reply("toggle_lock", network, NoUrl, "ok", 0)
    /\ UNCHANGED <<vault, monitor, public_key, activity_list, failed_transfers,
                   plan, network, endpoints, active_index,
                   controller_keypair>>

\* WalletController.export_secret (466-471): RuntimeError without a keypair,
\* else the secret.
export_secret ==
    /\ reply' = Reply("export_secret", network, NoUrl,
                      IF controller_keypair THEN "secret" ELSE "RuntimeError", 0)
    /\ errors' = <<>>
    /\ rotation' = NoRotation
    /\ selected' = NoUrl
    /\ UNCHANGED <<vault, monitor, wallet_locked, public_key, activity_list,
                   failed_transfers, plan, network, endpoints,
                   active_index, controller_keypair>>

\* The transfers of the dialog and of the tests: amounts of 0 and 1 SOL, at
\* most MaxTransfers at a time and in the activity list.
MaxTransfers == 2
Amounts == {0, 1}
TransferLists == UNION {[1..k -> Amounts] : k \in 0..MaxTransfers}

\* WalletController.transfer (591-635): what it raises, or "ok".  It raises
\* without a keypair, for an amount that is not positive, and when
\* fetch_recent_blockhash finds no endpoint to select.
TransferOutcome(pool, amount) ==
    IF ~controller_keypair THEN "RuntimeError"
    ELSE IF amount <= 0 THEN "ValueError"
    ELSE IF pool = <<>> THEN "RuntimeError"
    ELSE "ok"

\* The pool after the requests of a transfer that goes through:
\* fetch_recent_blockhash (line 616), then estimate_fee (line 619).
Transferred(pool, answers) == Requested(Requested(pool, answers[1]), answers[2])

RemoteCallsOfTransfer == 2

\* The loop of _process_transfers (app.py 650-681) from a state `st` of the
\* pool, the activity list and the failed-transfer queue: every transfer adds
\* an item to the activity list, and a transfer that raises is queued.
RECURSIVE ProcessFrom(_, _, _)
ProcessFrom(st, transfers, answers) ==
    IF transfers = <<>> THEN st
    ELSE LET amount == Head(transfers)
             outcome == TransferOutcome(st.pool, amount)
             next == IF outcome = "ok"
                     THEN [st EXCEPT
                             !.pool = Transferred(st.pool, Head(answers)),
                             !.url = select_endpoint(
                                        Requested(st.pool, Head(answers)[1])).url,
                             !.calls = @ + RemoteCallsOfTransfer,
                             !.activity = Append(@, [amount |-> amount,
                                                     line |-> "ok"])]
                     ELSE [st EXCEPT
                             !.activity = Append(@, [amount |-> amount,
                                                     line |-> outcome]),
                             !.failed = Append(@, amount)]
         IN ProcessFrom(next, Tail(transfers), Tail(answers))

\* TreasuryConsole._process_transfers, lines 644-648: the guard.
\* Faulty variant: only the lock is looked at.
BlockedWhenLocked == wallet_locked

Blocked == wallet_locked \/ ~public_key

Processed(transfers, answers, queue) ==
    ProcessFrom([pool |-> endpoints[network], activity |-> activity_list,
                 failed |-> queue, calls |-> 0, url |-> NoUrl],
                transfers, answers)

\* TreasuryConsole._process_transfers (app.py 641-681).
_process_transfers(transfers, answers) ==
    IF Blocked
    THEN /\ errors' = <<"Wallet locked">>
         /\ reply' = Reply("_process_transfers", network, NoUrl, "blocked", 0)
         /\ rotation' = NoRotation
         /\ selected' = NoUrl
         /\ UNCHANGED <<vault, monitor, wallet_locked, public_key,
                        activity_list, failed_transfers, plan,
                        network, endpoints, active_index, controller_keypair>>
    ELSE LET done == Processed(transfers, answers, failed_transfers)
         IN /\ Len(activity_list) + Len(transfers) <= MaxTransfers
            /\ endpoints' = [endpoints EXCEPT ![network] = done.pool]
            /\ activity_list' = done.activity
            /\ failed_transfers' = done.failed
            /\ errors' = <<>>
            /\ reply' = Reply("_process_transfers", network, done.url, "ok",
                              done.calls)
            /\ rotation' = NoRotation
            /\ selected' = done.url
            /\ UNCHANGED <<vault, monitor, wallet_locked, public_key,
                           plan, network, active_index,
                           controller_keypair>>

\* TreasuryConsole._retry_failed_transfers (app.py 683-692): the queue is
\* emptied and each of its transfers processed on its own.
_retry_failed_transfers(answers) ==
    IF failed_transfers = <<>>
    THEN /\ errors' = <<>>
         /\ reply' = Reply("_retry_failed_transfers", network, NoUrl, "empty", 0)
         /\ rotation' = NoRotation
         /\ selected' = NoUrl
         /\ UNCHANGED <<vault, monitor, wallet_locked, public_key,
                        activity_list, failed_transfers, plan,
                        network, endpoints, active_index, controller_keypair>>
    ELSE IF Blocked
    THEN /\ failed_transfers' = <<>>
         /\ errors' = [i \in 1..Len(failed_transfers) |-> "Wallet locked"]
         /\ reply' = Reply("_retry_failed_transfers", network, NoUrl,
                           "blocked", 0)
         /\ rotation' = NoRotation
         /\ selected' = NoUrl
         /\ UNCHANGED <<vault, monitor, wallet_locked, public_key,
                        activity_list, plan, network, endpoints,
                        active_index, controller_keypair>>
    ELSE LET done == Processed(failed_transfers, answers, <<>>)
         IN /\ Len(activity_list) + Len(failed_transfers) <= MaxTransfers
            /\ endpoints' = [endpoints EXCEPT ![network] = done.pool]
            /\ activity_list' = done.activity
            /\ failed_transfers' = done.failed
            /\ errors' = <<>>
            /\ reply' = Reply("_retry_failed_transfers", network, done.url,
                              "ok", done.calls)
            /\ rotation' = NoRotation
            /\ selected' = done.url
            /\ UNCHANGED <<vault, monitor, wallet_locked, public_key,
                           plan, network, active_index,
                           controller_keypair>>

\* The console with the default endpoints or with none for Devnet, the user
\* loading keys, toggling the lock, exporting the secret, switching networks
\* and sending transfers.
InitWindow ==
    /\ InitVault(NoMetadata, 0)
    /\ \E pool \in {<<>>, _default_endpoint_matrix["Devnet"]} :
          InitEndpoints([_default_endpoint_matrix EXCEPT !["Devnet"] = pool])

Answers(n) == [1..n -> BOOLEAN \X BOOLEAN]

WindowNext ==
    \/ _apply_keypair
    \/ toggle_lock
    \/ export_secret
    \/ \E n \in Networks : switch_network(n)
    \/ \E transfers \in TransferLists : \E answers \in Answers(Len(transfers)) :
          _process_transfers(transfers, answers)
    \/ \E answers \in Answers(MaxTransfers) : _retry_failed_transfers(answers)

SpecWindow == InitWindow /\ [][WindowNext]_vars

\* C35: while the wallet state is locked or holds no public key, processing a
\* list of transfers runs no transfer and sends no request: it shows one
\* "Wallet locked" error and leaves the activity list, the failed-transfer
\* queue and the endpoints as they were.
C35_BlockedWhileLocked ==
    [][(reply'.op = "_process_transfers" /\ (wallet_locked \/ ~public_key))
          => /\ errors' = <<"Wallet locked">>
             /\ reply'.attempts = 0
             /\ selected' = NoUrl
             /\ UNCHANGED <<activity_list, failed_transfers, endpoints,
                            active_index, wallet_locked, public_key,
                            controller_keypair>>]_vars

\* Transfers were refused on a wallet locked again after a key was loaded and
\* a transfer had gone through.
C35_Witness ==
    /\ reply.op = "_process_transfers"
    /\ errors = <<"Wallet locked">>
    /\ wallet_locked
    /\ public_key
    /\ activity_list # <<>>

\* C40: whenever WalletState.locked is true the controller holds no usable
\* key, so that export_secret (and transfer, which checks the same field)
\* raises on a locked wallet whatever keys were generated or imported and
\* however the lock was toggled before; and the wallet is never unlocked
\* without a key loaded.
C40_LockedHoldsNoKey ==
    /\ wallet_locked => ~controller_keypair
    /\ (reply.op = "export_secret" /\ wallet_locked)
          => reply.status = "RuntimeError"
    /\ ~wallet_locked => controller_keypair

\* ------------------------------------------------------- mint helpers
\* TokenProgram and TOKEN_PROGRAM_IDS (wallet.py 65-68), and a program name
\* that is neither.
TokenPrograms == {"Token-2022", "Token"}
ProgramArguments == TokenPrograms \cup {"Unknown"}

\* _program_id (75-81): the id of the program, ValueError for an unknown one.
_program_id(program) ==
    IF program = "Token-2022" THEN "TokenzQdB"
    ELSE IF program = "Token" THEN "TokenkegQ"
    ELSE "ValueError"

\* The truth value Python gives an optional argument: None and the empty
\* string are false, a configuration object and an address are true.
Truthy(argument) == argument \notin {"None", ""}

\* _require_token_2022 (84-88): what it raises, "ok" when it returns.
_require_token_2022(program) ==
    IF program # "Token-2022" THEN "TokenProgramUnsupportedError" ELSE "ok"

InstructionStep(name, program) == [name |-> name, program_id |-> _program_id(program)]

Raised(request, op, error) ==
    [request EXCEPT !.op = op, !.outcome = error, !.instructions = <<>>]

Returned(request, op, instructions) ==
    [request EXCEPT !.op = op, !.outcome = "ok", !.instructions = instructions]

\* any([transfer_hook, mint_close_authority, interest_bearing]), line 265.
\* Faulty variant: only the transfer hook is looked at.
any_transfer_hook(extensions) == Truthy(extensions.transfer_hook)

any(extensions) ==
    \/ Truthy(extensions.transfer_hook)
    \/ Truthy(extensions.mint_close_authority)
    \/ Truthy(extensions.interest_bearing)

\* create_mint_instructions (243-349): the plan of a mint, the instructions
\* of each extension given after initialize_mint.
create_mint_instructions(request) ==
    LET program == request.token_program
        extensions == request.extensions
        op == "create_mint_instructions"
    IN IF _program_id(program) = "ValueError" THEN Raised(request, op, "ValueError")
       ELSE IF program = "Token" /\ any(extensions)
       THEN Raised(request, op, "TokenProgramUnsupportedError")
       ELSE Returned(request, op,
              <<InstructionStep("initialize_mint", program)>>
              \o (IF Truthy(extensions.transfer_hook)
                  THEN <<InstructionStep("initialize_transfer_hook_extension", program),
                         InstructionStep("configure_transfer_hook", program)>>
                  ELSE <<>>)
              \o (IF Truthy(extensions.mint_close_authority)
                  THEN <<InstructionStep("initialize_mint_close_authority_extension",
                                         program),
                         InstructionStep("set_mint_close_authority", program)>>
                  ELSE <<>>)
              \o (IF Truthy(extensions.interest_bearing)
                  THEN <<InstructionStep("initialize_interest_bearing_extension",
                                         program),
                         InstructionStep("set_interest_rate", program)>>
                  ELSE <<>>))

\* set_transfer_hook (352-372), set_mint_close_authority (375-391) and
\* set_interest_rate (394-414): one instruction, for Token-2022 only.
UpdateHelpers == {"set_transfer_hook", "set_mint_close_authority",
                  "set_interest_rate"}

update_mint(op, request) ==
    IF _require_token_2022(request.token_program) # "ok"
    THEN Raised(request, op, _require_token_2022(request.token_program))
    ELSE Returned(request, op, <<InstructionStep(op, request.token_program)>>)

\* A call of a helper with the arguments at hand.
create_mint ==
    /\ plan' = create_mint_instructions(plan)
    /\ UNCHANGED <<vault, registry, monitor, wallet_locked, public_key,
                   activity_list, failed_transfers, errors>>

set_transfer_hook ==
    /\ plan' = update_mint("set_transfer_hook", plan)
    /\ UNCHANGED <<vault, registry, monitor, wallet_locked, public_key,
                   activity_list, failed_transfers, errors>>

set_mint_close_authority ==
    /\ plan' = update_mint("set_mint_close_authority", plan)
    /\ UNCHANGED <<vault, registry, monitor, wallet_locked, public_key,
                   activity_list, failed_transfers, errors>>

set_interest_rate ==
    /\ plan' = update_mint("set_interest_rate", plan)
    /\ UNCHANGED <<vault, registry, monitor, wallet_locked, public_key,
                   activity_list, failed_transfers, errors>>

\* The arguments of the tests and their absence: a hook configuration, a
\* close authority (also an empty one) and an interest-bearing configuration.
ExtensionArguments ==
    [transfer_hook : {"None", "HookLegacy"},
     mint_close_authority : {"None", "", "CloseAuth"},
     interest_bearing : {"None", "RateAuth"}]

InitMint ==
    /\ InitVault(NoMetadata, 0)
    /\ \E program \in ProgramArguments, extensions \in ExtensionArguments :
          InitConsole(_default_endpoint_matrix, ConsoleInterval,
                      [NoPlan EXCEPT !.token_program = program,
                                     !.extensions = extensions])

MintNext ==
    \/ create_mint
    \/ set_transfer_hook
    \/ set_mint_close_authority
    \/ set_interest_rate

SpecMint == InitMint /\ [][MintNext]_vars

\* C36: Token-2022 extensions are refused on the legacy Token program:
\* create_mint_instructions for "Token" with a transfer hook, a mint close
\* authority or an interest-bearing configuration raises
\* TokenProgramUnsupportedError and returns no plan, as do set_transfer_hook,
\* set_mint_close_authority and set_interest_rate for "Token"; no plan for
\* "Token" holds an instruction of an extension.
C36_LegacyRejectsExtensions ==
    plan.token_program = "Token" =>
        /\ (/\ plan.op = "create_mint_instructions"
            /\ \/ plan.extensions.transfer_hook = "HookLegacy"
               \/ plan.extensions.mint_close_authority = "CloseAuth"
               \/ plan.extensions.interest_bearing = "RateAuth")
              => /\ plan.outcome = "TokenProgramUnsupportedError"
                 /\ plan.instructions = <<>>
        /\ plan.op \in UpdateHelpers
              => /\ plan.outcome = "TokenProgramUnsupportedError"
                 /\ plan.instructions = <<>>
        /\ \A i \in 1..Len(plan.instructions) :
              plan.instructions[i].name = "initialize_mint"

\* create_mint_instructions was called for "Token" with an interest-bearing
\* configuration alone and raised.
C36_Witness ==
    /\ plan.token_program = "Token"
    /\ plan.op = "create_mint_instructions"
    /\ plan.extensions = [NoExtensions EXCEPT !.interest_bearing = "RateAuth"]
    /\ plan.outcome = "TokenProgramUnsupportedError"

\* The urls a remote operation sent its request to in the step: the one it
\* selected, if it sent any.
Attempted == IF reply'.attempts = 0 THEN {} ELSE {selected'}

\* C37: when a remote operation gives up on a network with endpoints, it has
\* tried every candidate of the pool in that call and failed on each, those
\* already unhealthy at the start included, and has left none out.
C37_GivesUpAfterAllTried ==
    [][(Executes /\ endpoints[network] # <<>> /\ reply'.status # "ok") =>
          \A i \in 1..Len(endpoints[network]) :
              /\ endpoints[network][i].url \in Attempted
              /\ endpoints'[network][i].healthy = "False"]_vars

\* C38: the lock listeners are called once for every change from unlocked to
\* locked and not otherwise: a lock that the client calls on a manager
\* already locked, with no keypair in memory, calls no listener.
C38_NotifiedOncePerTransition ==
    (/\ returned.op = "lock"
     /\ returned.result = "ok"
     /\ returned.who \in Callers
     /\ returned.frame.was_locked)
    => returned.notified = 0

\* The timers started and neither cancelled nor fired.
ArmedTimers == {t \in TimerIds : pc[t] = "armed"}

\* No call of a client and no lock of a timer thread is in progress.
BetweenCalls == \A th \in Threads : pc[th] \in {"idle", "dead", "armed"}

\* C39: at any time at most one inactivity timer is armed and none is armed
\* while the manager is locked, whatever calls and expiries run concurrently;
\* between calls the handle is None or names the armed timer, and an armed
\* timer is the one the handle names.
C39_OneArmedTimer ==
    /\ Cardinality(ArmedTimers) <= 1
    /\ \A t \in ArmedTimers : ~locked
    /\ BetweenCalls
          => /\ \A t \in ArmedTimers : timer_handle = t
             /\ (timer_handle # NoTimer => pc[timer_handle] = "armed")

====
